---- MODULE Spec2Model ----
(***************************************************************************)
(* Model of the SMC feature pipeline (add_smc_features.py) and of the      *)
(* candle pagination loops (fetch_data.py).                                *)
(*                                                                         *)
(* A float cell of a DataFrame column is an exact rational [n, d] with     *)
(* d >= 0: d = 0 and n = 0 is NaN, d = 0 and n # 0 is +/-inf.  A cell of a *)
(* bool column is a BOOLEAN (a bool column cannot hold NaN).  np.log and   *)
(* rolling().std() are kept symbolic: [ln |-> x] stands for ln(x) and      *)
(* [std |-> w] for the sample standard deviation of the window w.          *)
(***************************************************************************)
EXTENDS Integers, Sequences, FiniteSets, TLC

VARIABLES
    file_exists,    \* whether btc_1m_mainnet_data.csv is there
    csv,            \* its rows: a sequence of bars [ts, open, high, low, close, volume]
    lookback,       \* lookback handed to the three windowed detectors
    gap_threshold,  \* gap_threshold handed to detect_fair_value_gaps
    order,          \* the detectors add_smc_features calls, in call order
    todo,           \* the detectors add_smc_features has still to call
    pc,             \* position in main: load, raw, smc, save, done
    df,             \* the DataFrame main works on
    result,         \* none, saved, file_not_found
    out,            \* the table written to btc_1m_with_features.csv
    again,          \* no, reapply (the feature functions run again on df), rerun (main runs again)
    first,          \* what the first application, or the first run, produced
    fpc,            \* position in fetch_candles: sdk, http, process, done
    current_start,  \* pagination cursor
    end_time,       \* end of the requested range
    all_candles,    \* close times 'T' of the candles collected so far
    candles         \* what fetch_candles hands to process_candles

vars == <<file_exists, csv, lookback, gap_threshold, order, todo, pc, df, result,
          out, again, first, fpc, current_start, end_time, all_candles, candles>>

pipeVars == <<file_exists, csv, lookback, gap_threshold, order, todo, pc, df,
              result, out, again, first>>

fetchVars == <<fpc, current_start, end_time, all_candles, candles>>

(***************************************************************************)
(* Bounds of the model.                                                    *)
(***************************************************************************)
MaxBars == 22
MaxShortLen == 4

(***************************************************************************)
(* Program constants.                                                      *)
(***************************************************************************)
DefaultLookback == 20
VolWindow == 20
Lags == <<1, 5, 10>>

(***************************************************************************)
(* Float arithmetic.                                                       *)
(***************************************************************************)
R(k) == [n |-> k, d |-> 1]

Frac(a, b) == [n |-> a, d |-> b]

NaN == [n |-> 0, d |-> 0]

IsNaN(x) == x.d = 0 /\ x.n = 0

Sign(k) == IF k > 0 THEN 1 ELSE IF k < 0 THEN -1 ELSE 0

RGt(a, b) == ~IsNaN(a) /\ ~IsNaN(b) /\ a.n * b.d > b.n * a.d

RLt(a, b) == RGt(b, a)

REq(a, b) == ~IsNaN(a) /\ ~IsNaN(b) /\ a.n * b.d = b.n * a.d

RSub(a, b) ==
    IF IsNaN(a) \/ IsNaN(b) THEN NaN
    ELSE [n |-> a.n * b.d - b.n * a.d, d |-> a.d * b.d]

RMul(a, b) ==
    IF IsNaN(a) \/ IsNaN(b) THEN NaN
    ELSE [n |-> a.n * b.n, d |-> a.d * b.d]

RDiv(a, b) ==
    IF IsNaN(a) \/ IsNaN(b) THEN NaN
    ELSE IF b.n = 0 THEN [n |-> Sign(a.n), d |-> 0]
    ELSE IF b.n > 0 THEN [n |-> a.n * b.d, d |-> a.d * b.n]
    ELSE [n |-> -(a.n * b.d), d |-> a.d * (-b.n)]

NpLog(x) == [ln |-> IF IsNaN(x) \/ x.n < 0 THEN NaN ELSE x]

StdNaN == [std |-> <<>>]

BoolCols == {"pivot_high", "pivot_low", "ob_high", "ob_low",
             "liq_sweep_bull", "liq_sweep_bear", "bos_bull", "bos_bear"}

CellIsNaN(c, x) ==
    IF c \in BoolCols THEN FALSE
    ELSE IF c = "log_return" THEN IsNaN(x.ln)
    ELSE IF c = "volatility_20" THEN x.std = <<>>
    ELSE IsNaN(x)

(***************************************************************************)
(* pandas primitives on a column (a sequence of cells).                    *)
(***************************************************************************)
RECURSIVE Ascending(_)
Ascending(S) ==
    IF S = {} THEN <<>>
    ELSE LET m == CHOOSE x \in S : \A y \in S : x <= y
         IN <<m>> \o Ascending(S \ {m})

RECURSIVE SumN(_)
SumN(s) == IF s = <<>> THEN 0 ELSE Head(s).n + SumN(Tail(s))

\* Series.shift(k): row i gets row i-k, NaN where there is no such row.
Shift(col, k) ==
    [i \in 1..Len(col) |-> IF i - k >= 1 /\ i - k <= Len(col) THEN col[i - k] ELSE NaN]

\* The window of Series.rolling(window=w) at row i; center=True moves it
\* (w-1) \div 2 rows forward.
WindowRows(i, w, center) ==
    LET off == IF center THEN (w - 1) \div 2 ELSE 0
    IN  (i + off - w + 1)..(i + off)

\* min_periods defaults to the window size: a window that leaves the column
\* or holds a NaN gives NaN.
WindowFull(col, i, w, center) ==
    \A j \in WindowRows(i, w, center) :
        j >= 1 /\ j <= Len(col) /\ ~IsNaN(col[j])

RollingMax(col, w, center) ==
    [i \in 1..Len(col) |->
        IF WindowFull(col, i, w, center)
        THEN LET W == WindowRows(i, w, center)
             IN  col[CHOOSE j \in W : \A k \in W : ~RGt(col[k], col[j])]
        ELSE NaN]

RollingMin(col, w, center) ==
    [i \in 1..Len(col) |->
        IF WindowFull(col, i, w, center)
        THEN LET W == WindowRows(i, w, center)
             IN  col[CHOOSE j \in W : \A k \in W : ~RLt(col[k], col[j])]
        ELSE NaN]

\* The columns averaged here hold whole numbers (d = 1).
RollingMean(col, w) ==
    [i \in 1..Len(col) |->
        IF WindowFull(col, i, w, FALSE)
        THEN Frac(SumN(SubSeq(col, i - w + 1, i)), w)
        ELSE NaN]

LnFinite(x) == ~IsNaN(x.ln) /\ x.ln.n > 0 /\ x.ln.d > 0

RollingStd(col, w) ==
    [i \in 1..Len(col) |->
        IF i >= w /\ \A j \in (i - w + 1)..i : LnFinite(col[j])
        THEN [std |-> SubSeq(col, i - w + 1, i)]
        ELSE StdNaN]

(***************************************************************************)
(* The DataFrame: an index and named columns.                              *)
(***************************************************************************)
NRows(d) == Len(d.index)

Columns(d) == DOMAIN d.cols

\* df[name] = values
SetCol(d, name, values) ==
    [d EXCEPT !.cols = [c \in (DOMAIN d.cols) \cup {name} |->
                            IF c = name THEN values ELSE d.cols[c]]]

\* df.drop(names, axis=1, inplace=True)
DropCols(d, names) ==
    [d EXCEPT !.cols = [c \in (DOMAIN d.cols) \ names |-> d.cols[c]]]

\* Mutant: a reader that validates, leaving out the bars with high < low.
read_csv_checked(rows) ==
    LET good == SelectSeq(rows, LAMBDA b : b.high >= b.low)
    IN  [index |-> [i \in 1..Len(good) |-> good[i].ts],
         cols  |-> [c \in {"open", "high", "low", "close", "volume"} |->
                      [i \in 1..Len(good) |->
                         R(CASE c = "open"   -> good[i].open
                             [] c = "high"   -> good[i].high
                             [] c = "low"    -> good[i].low
                             [] c = "close"  -> good[i].close
                             [] c = "volume" -> good[i].volume)]]]

\* pd.read_csv(input_file, parse_dates=['start_timestamp'], index_col='start_timestamp')
read_csv(rows) ==
    [index |-> [i \in 1..Len(rows) |-> rows[i].ts],
     cols  |-> [c \in {"open", "high", "low", "close", "volume"} |->
                  [i \in 1..Len(rows) |->
                     R(CASE c = "open"   -> rows[i].open
                         [] c = "high"   -> rows[i].high
                         [] c = "low"    -> rows[i].low
                         [] c = "close"  -> rows[i].close
                         [] c = "volume" -> rows[i].volume)]]]

RowHasNaN(d, i) == \E c \in Columns(d) : CellIsNaN(c, d.cols[c][i])

\* Mutant: dropna(how='all'), which drops a row only when all its cells are NaN.
dropna_all(d) ==
    LET keep == Ascending({i \in 1..NRows(d) :
                    \E c \in Columns(d) : ~CellIsNaN(c, d.cols[c][i])})
    IN  [index |-> [j \in 1..Len(keep) |-> d.index[keep[j]]],
         cols  |-> [c \in Columns(d) |-> [j \in 1..Len(keep) |-> d.cols[c][keep[j]]]]]

\* df.dropna(inplace=True)
dropna(d) ==
    LET keep == Ascending({i \in 1..NRows(d) : ~RowHasNaN(d, i)})
    IN  [index |-> [j \in 1..Len(keep) |-> d.index[keep[j]]],
         cols  |-> [c \in Columns(d) |-> [j \in 1..Len(keep) |-> d.cols[c][keep[j]]]]]

(***************************************************************************)
(* The detectors and the raw features.                                     *)
(***************************************************************************)
DefaultVolumeThreshold == Frac(3, 2)

DefaultGapThreshold == Frac(1, 1000)

DefaultReversalThreshold == Frac(2, 1000)

detect_order_blocks(d0, lb, volume_threshold) ==
    LET n  == NRows(d0)
        d1 == SetCol(d0, "pivot_high",
                  LET m == RollingMax(d0.cols["high"], lb, TRUE)
                  IN  [i \in 1..n |-> REq(m[i], d0.cols["high"][i])])
        d2 == SetCol(d1, "pivot_low",
                  LET m == RollingMin(d1.cols["low"], lb, TRUE)
                  IN  [i \in 1..n |-> REq(m[i], d1.cols["low"][i])])
        avg_vol == RollingMean(d2.cols["volume"], lb)
        d3 == SetCol(d2, "ob_high",
                  [i \in 1..n |-> d2.cols["pivot_high"][i]
                      /\ RGt(d2.cols["volume"][i], RMul(avg_vol[i], volume_threshold))])
        d4 == SetCol(d3, "ob_low",
                  [i \in 1..n |-> d3.cols["pivot_low"][i]
                      /\ RGt(d3.cols["volume"][i], RMul(avg_vol[i], volume_threshold))])
    IN  DropCols(d4, {"pivot_high", "pivot_low"})

\* Mutant: the "filter small gaps" step is missing.
detect_fair_value_gaps_unfiltered(d0, gap_thr) ==
    LET n  == NRows(d0)
        prev_high == Shift(d0.cols["high"], 1)
        prev_low  == Shift(d0.cols["low"], 1)
        d1 == SetCol(d0, "fvg_bull",
                  [i \in 1..n |->
                      IF RGt(d0.cols["low"][i], prev_high[i])
                      THEN RDiv(RSub(d0.cols["low"][i], prev_high[i]), prev_high[i])
                      ELSE R(0)])
    IN  SetCol(d1, "fvg_bear",
                  [i \in 1..n |->
                      IF RLt(d1.cols["high"][i], prev_low[i])
                      THEN RDiv(RSub(prev_low[i], d1.cols["high"][i]), prev_low[i])
                      ELSE R(0)])

\* Mutant: the previous highs are shifted in place (df['high'] itself is
\* overwritten) instead of into a temporary.
detect_fair_value_gaps_inplace(d0, gap_thr) ==
    LET n  == NRows(d0)
        prev_high == Shift(d0.cols["high"], 1)
        prev_low  == Shift(d0.cols["low"], 1)
        d1 == SetCol(d0, "fvg_bull",
                  [i \in 1..n |->
                      IF RGt(d0.cols["low"][i], prev_high[i])
                      THEN RDiv(RSub(d0.cols["low"][i], prev_high[i]), prev_high[i])
                      ELSE R(0)])
        d2 == SetCol(d1, "fvg_bear",
                  [i \in 1..n |->
                      IF RLt(d1.cols["high"][i], prev_low[i])
                      THEN RDiv(RSub(prev_low[i], d1.cols["high"][i]), prev_low[i])
                      ELSE R(0)])
        d3 == SetCol(d2, "fvg_bull",
                  [i \in 1..n |-> IF RGt(d2.cols["fvg_bull"][i], gap_thr)
                                  THEN d2.cols["fvg_bull"][i] ELSE R(0)])
        d4 == SetCol(d3, "fvg_bear",
                  [i \in 1..n |-> IF RGt(d3.cols["fvg_bear"][i], gap_thr)
                                  THEN d3.cols["fvg_bear"][i] ELSE R(0)])
    IN  SetCol(d4, "high", prev_high)

detect_fair_value_gaps(d0, gap_thr) ==
    LET n  == NRows(d0)
        prev_high == Shift(d0.cols["high"], 1)
        prev_low  == Shift(d0.cols["low"], 1)
        d1 == SetCol(d0, "fvg_bull",
                  [i \in 1..n |->
                      IF RGt(d0.cols["low"][i], prev_high[i])
                      THEN RDiv(RSub(d0.cols["low"][i], prev_high[i]), prev_high[i])
                      ELSE R(0)])
        d2 == SetCol(d1, "fvg_bear",
                  [i \in 1..n |->
                      IF RLt(d1.cols["high"][i], prev_low[i])
                      THEN RDiv(RSub(prev_low[i], d1.cols["high"][i]), prev_low[i])
                      ELSE R(0)])
        d3 == SetCol(d2, "fvg_bull",
                  [i \in 1..n |-> IF RGt(d2.cols["fvg_bull"][i], gap_thr)
                                  THEN d2.cols["fvg_bull"][i] ELSE R(0)])
    IN  SetCol(d3, "fvg_bear",
                  [i \in 1..n |-> IF RGt(d3.cols["fvg_bear"][i], gap_thr)
                                  THEN d3.cols["fvg_bear"][i] ELSE R(0)])

\* Mutant: the bearish sweep tests the break below the prior low.
detect_liquidity_sweeps_low_break(d0, lb, reversal_threshold) ==
    LET n  == NRows(d0)
        rolling_min_low  == Shift(RollingMin(d0.cols["low"], lb, FALSE), 1)
        break_below == [i \in 1..n |-> RLt(d0.cols["low"][i], rolling_min_low[i])]
        reversal_up == [i \in 1..n |->
            RGt(RDiv(RSub(d0.cols["close"][i], d0.cols["open"][i]), d0.cols["open"][i]),
                reversal_threshold)]
        d1 == SetCol(d0, "liq_sweep_bull", [i \in 1..n |-> break_below[i] /\ reversal_up[i]])
        reversal_down == [i \in 1..n |->
            RGt(RDiv(RSub(d1.cols["open"][i], d1.cols["close"][i]), d1.cols["open"][i]),
                reversal_threshold)]
    IN  SetCol(d1, "liq_sweep_bear", [i \in 1..n |-> break_below[i] /\ reversal_down[i]])

detect_liquidity_sweeps(d0, lb, reversal_threshold) ==
    LET n  == NRows(d0)
        rolling_min_low  == Shift(RollingMin(d0.cols["low"], lb, FALSE), 1)
        rolling_max_high == Shift(RollingMax(d0.cols["high"], lb, FALSE), 1)
        break_below == [i \in 1..n |-> RLt(d0.cols["low"][i], rolling_min_low[i])]
        reversal_up == [i \in 1..n |->
            RGt(RDiv(RSub(d0.cols["close"][i], d0.cols["open"][i]), d0.cols["open"][i]),
                reversal_threshold)]
        d1 == SetCol(d0, "liq_sweep_bull", [i \in 1..n |-> break_below[i] /\ reversal_up[i]])
        break_above == [i \in 1..n |-> RGt(d1.cols["high"][i], rolling_max_high[i])]
        reversal_down == [i \in 1..n |->
            RGt(RDiv(RSub(d1.cols["open"][i], d1.cols["close"][i]), d1.cols["open"][i]),
                reversal_threshold)]
    IN  SetCol(d1, "liq_sweep_bear", [i \in 1..n |-> break_above[i] /\ reversal_down[i]])

\* Mutant: the rolling extremes are not shifted, so they include the current bar.
detect_break_of_structure_unshifted(d0, lb) ==
    LET n  == NRows(d0)
        rolling_max_high == RollingMax(d0.cols["high"], lb, FALSE)
        rolling_min_low  == RollingMin(d0.cols["low"], lb, FALSE)
        d1 == SetCol(d0, "bos_bull",
                  [i \in 1..n |-> RGt(d0.cols["high"][i], rolling_max_high[i])])
    IN  SetCol(d1, "bos_bear",
                  [i \in 1..n |-> RLt(d1.cols["low"][i], rolling_min_low[i])])

\* Mutant: shift(-1) for shift(1), so the extremes are those of the window
\* ending at the next bar.
detect_break_of_structure_lookahead(d0, lb) ==
    LET n  == NRows(d0)
        rolling_max_high == Shift(RollingMax(d0.cols["high"], lb, FALSE), -1)
        rolling_min_low  == Shift(RollingMin(d0.cols["low"], lb, FALSE), -1)
        d1 == SetCol(d0, "bos_bull",
                  [i \in 1..n |-> RGt(d0.cols["high"][i], rolling_max_high[i])])
    IN  SetCol(d1, "bos_bear",
                  [i \in 1..n |-> RLt(d1.cols["low"][i], rolling_min_low[i])])

detect_break_of_structure(d0, lb) ==
    LET n  == NRows(d0)
        rolling_max_high == Shift(RollingMax(d0.cols["high"], lb, FALSE), 1)
        rolling_min_low  == Shift(RollingMin(d0.cols["low"], lb, FALSE), 1)
        d1 == SetCol(d0, "bos_bull",
                  [i \in 1..n |-> RGt(d0.cols["high"][i], rolling_max_high[i])])
    IN  SetCol(d1, "bos_bear",
                  [i \in 1..n |-> RLt(d1.cols["low"][i], rolling_min_low[i])])

CloseLag(lag) == "close_lag_" \o ToString(lag)

VolumeLag(lag) == "volume_lag_" \o ToString(lag)

RECURSIVE AddLagCols(_, _)
AddLagCols(d, lags) ==
    IF lags = <<>> THEN d
    ELSE LET d1 == SetCol(d, CloseLag(Head(lags)), Shift(d.cols["close"], Head(lags)))
             d2 == SetCol(d1, VolumeLag(Head(lags)), Shift(d1.cols["volume"], Head(lags)))
         IN  AddLagCols(d2, Tail(lags))

\* Mutant: the close ratio is written back into df['close'] before the
\* logarithm is taken.
add_raw_features_inplace(d0, lags) ==
    LET n  == NRows(d0)
        d1 == AddLagCols(d0, lags)
        prev == Shift(d1.cols["close"], 1)
        d2 == SetCol(d1, "close", [i \in 1..n |-> RDiv(d1.cols["close"][i], prev[i])])
        d3 == SetCol(d2, "log_return", [i \in 1..n |-> NpLog(d2.cols["close"][i])])
    IN  SetCol(d3, "volatility_20", RollingStd(d3.cols["log_return"], VolWindow))

add_raw_features(d0, lags) ==
    LET n  == NRows(d0)
        d1 == AddLagCols(d0, lags)
        prev == Shift(d1.cols["close"], 1)
        d2 == SetCol(d1, "log_return",
                  [i \in 1..n |-> NpLog(RDiv(d1.cols["close"][i], prev[i]))])
    IN  SetCol(d2, "volatility_20", RollingStd(d2.cols["log_return"], VolWindow))

CodeOrder == <<"ob", "fvg", "ls", "bos">>

\* add_smc_features: the four detectors in the order the code calls them.
add_smc_features(d, lb, gap_thr) ==
    detect_break_of_structure(
        detect_liquidity_sweeps(
            detect_fair_value_gaps(
                detect_order_blocks(d, lb, DefaultVolumeThreshold),
                gap_thr),
            lb, DefaultReversalThreshold),
        lb)

(***************************************************************************)
(* main(): one action per step.  Nothing in these steps raises on a table  *)
(* of numbers, so the "except Exception" branch has no action.             *)
(***************************************************************************)
NoTable == [index |-> <<>>, cols |-> [c \in {} |-> <<>>]]

cfgVars == <<file_exists, csv, lookback, gap_threshold, order>>

LoadCsv ==
    /\ pc = "load" /\ file_exists
    /\ df' = read_csv(csv)
    /\ pc' = "raw"
    /\ UNCHANGED <<cfgVars, todo, result, out, again, first, fetchVars>>

FileNotFound ==
    /\ pc = "load" /\ ~file_exists
    /\ result' = "file_not_found"
    /\ pc' = "done"
    /\ UNCHANGED <<cfgVars, todo, df, out, again, first, fetchVars>>

AddRawFeatures ==
    /\ pc = "raw"
    /\ df' = add_raw_features(df, Lags)
    /\ pc' = "smc"
    /\ UNCHANGED <<cfgVars, todo, result, out, again, first, fetchVars>>

SmcCall(name) ==
    /\ pc = "smc" /\ todo # <<>> /\ Head(todo) = name
    /\ todo' = Tail(todo)
    /\ UNCHANGED <<cfgVars, pc, result, out, again, first, fetchVars>>

DetectOrderBlocks ==
    /\ SmcCall("ob")
    /\ df' = detect_order_blocks(df, lookback, DefaultVolumeThreshold)

DetectFairValueGaps ==
    /\ SmcCall("fvg")
    /\ df' = detect_fair_value_gaps(df, gap_threshold)

DetectLiquiditySweeps ==
    /\ SmcCall("ls")
    /\ df' = detect_liquidity_sweeps(df, lookback, DefaultReversalThreshold)

DetectBreakOfStructure ==
    /\ SmcCall("bos")
    /\ df' = detect_break_of_structure(df, lookback)

DropNa ==
    /\ pc = "smc" /\ todo = <<>>
    /\ df' = dropna(df)
    /\ pc' = "save"
    /\ UNCHANGED <<cfgVars, todo, result, out, again, first, fetchVars>>

ToCsv ==
    /\ pc = "save"
    /\ out' = df
    /\ result' = "saved"
    /\ pc' = "done"
    /\ UNCHANGED <<cfgVars, todo, df, again, first, fetchVars>>

\* A caller that runs add_raw_features and add_smc_features again on the
\* DataFrame they already annotated in place.
Reapply ==
    /\ pc = "smc" /\ todo = <<>> /\ again = "no"
    /\ first' = df
    /\ again' = "reapply"
    /\ todo' = order
    /\ pc' = "raw"
    /\ UNCHANGED <<cfgVars, df, result, out, fetchVars>>

\* main() called a second time on the same input file.
RunAgain ==
    /\ pc = "done" /\ again = "no"
    /\ first' = out
    /\ again' = "rerun"
    /\ todo' = order
    /\ pc' = "load"
    /\ UNCHANGED <<cfgVars, df, result, out, fetchVars>>

MainStep ==
    \/ LoadCsv
    \/ FileNotFound
    \/ AddRawFeatures
    \/ DetectOrderBlocks
    \/ DetectFairValueGaps
    \/ DetectLiquiditySweeps
    \/ DetectBreakOfStructure
    \/ DropNa
    \/ ToCsv

(***************************************************************************)
(* Inputs.                                                                 *)
(***************************************************************************)
Bar(o, h, l, c, v) == [open |-> o, high |-> h, low |-> l, close |-> c, volume |-> v]

Stamp(b, t) ==
    [ts |-> t, open |-> b.open, high |-> b.high, low |-> b.low,
     close |-> b.close, volume |-> b.volume]

\* The input file is the one process_candles writes, and it writes none for an
\* empty table: a series has at least one bar.  Prices are positive.
\* Short series: every sequence of 1 to MaxShortLen of these bars, with
\* timestamps 1, 2, ...
B1 == Bar(100, 105, 98, 102, 1000)
B2 == Bar(102, 110, 101, 108, 1200)
B3 == Bar(108, 109, 95, 97, 5000)
B4 == Bar(113, 115, 111, 112, 800)
B5 == Bar(96, 104, 90, 103, 3000)

Alphabet == {B1, B2, B3, B4, B5}

SeriesOver(bars, maxLen) ==
    UNION {{[i \in 1..n |-> Stamp(f[i], i)] : f \in [1..n -> bars]} : n \in 1..maxLen}

ShortSeries == SeriesOver(Alphabet, MaxShortLen)

\* Long series: a regular base series of n <= MaxBars bars, optionally with one
\* odd bar at position p: a volume spike, a bar with high < low, or a bar
\* that repeats the timestamp before it.
BaseBar(i) == Bar(100 + (i % 3), 102 + (i % 3), 98 + (i % 3), 101 + (i % 3), 1000)

OddBar(kind, i) ==
    CASE kind = "spike"    -> Stamp(Bar(104, 120, 103, 119, 5000), i)
      [] kind = "inverted" -> Stamp(Bar(100, 95, 105, 101, 1000), i)
      [] kind = "dupts"    -> Stamp(BaseBar(i), IF i > 1 THEN i - 1 ELSE i)
      [] OTHER             -> Stamp(BaseBar(i), i)

LongOne(n, p, kind) ==
    [i \in 1..n |-> IF i = p THEN OddBar(kind, i) ELSE Stamp(BaseBar(i), i)]

LongSeries ==
    {LongOne(n, 0, "plain") : n \in 1..MaxBars}
    \cup {LongOne(n, p, kind) : n \in 1..MaxBars, p \in 1..MaxBars,
                                kind \in {"spike", "inverted", "dupts"}}

\* The bar invariant of the data model: high >= low on every bar and strictly
\* increasing timestamps.
ValidSeries(rows) ==
    /\ \A i \in 1..Len(rows) : rows[i].high >= rows[i].low
    /\ \A i \in 1..(Len(rows) - 1) : rows[i].ts < rows[i + 1].ts

Input(rows, lb, gt, ord) == [rows |-> rows, lb |-> lb, gt |-> gt, ord |-> ord]

\* main() as written: the defaults everywhere, the detectors in code order.
MainInputs ==
    {Input(s, DefaultLookback, DefaultGapThreshold, CodeOrder) : s \in LongSeries}

\* The detectors called with small lookbacks and several gap thresholds.
DetConfigs == {<<1, DefaultGapThreshold>>, <<2, R(0)>>, <<3, Frac(1, 100)>>}

\* Long enough series, too, for the lags and the 20-bar volatility to be defined.
DetInputs ==
    {Input(s, c[1], c[2], CodeOrder) : s \in ShortSeries, c \in DetConfigs}
    \cup {Input(LongOne(MaxBars, p, "spike"), 3, DefaultGapThreshold, CodeOrder) :
              p \in 1..MaxBars}

\* What fetch_candles_sdk and fetch_candles_http return: None or a list.
None == [none |-> TRUE, list |-> <<>>]

Some(l) == [none |-> FALSE, list |-> l]

FetchIdle ==
    /\ fpc = "done"
    /\ current_start = 0
    /\ end_time = 0
    /\ all_candles = <<>>
    /\ candles = None

InitFrom(inputs) ==
    /\ \/ /\ file_exists = TRUE
          /\ \E x \in inputs :
                /\ csv = x.rows
                /\ lookback = x.lb
                /\ gap_threshold = x.gt
                /\ order = x.ord
       \/ /\ file_exists = FALSE
          /\ csv = <<>>
          /\ lookback = DefaultLookback
          /\ gap_threshold = DefaultGapThreshold
          /\ order = CodeOrder
    /\ todo = order
    /\ pc = "load"
    /\ df = NoTable
    /\ result = "none"
    /\ out = NoTable
    /\ again = "no"
    /\ first = NoTable
    /\ FetchIdle

Init == InitFrom(MainInputs)

Next == MainStep

Spec == Init /\ [][Next]_vars

InitDet == InitFrom(DetInputs)

SpecDet == InitDet /\ [][Next]_vars

\* add_smc_features with its detectors called in any order, one of them
\* possibly left out.
Detectors == {CodeOrder[k] : k \in 1..Len(CodeOrder)}

Orders ==
    {o \in UNION {[1..n -> Detectors] : n \in (Len(CodeOrder) - 1)..Len(CodeOrder)} :
        \A a, b \in DOMAIN o : a # b => o[a] # o[b]}

AnyInputs ==
    {Input(s, 2, DefaultGapThreshold, o) :
        s \in SeriesOver({B1, B2, B3}, MaxShortLen - 1), o \in Orders}
    \cup {Input(LongOne(MaxBars, MaxBars - 1, "spike"), DefaultLookback,
                DefaultGapThreshold, o) : o \in Orders}

InitAny == InitFrom(AnyInputs)

SpecAny == InitAny /\ [][Next]_vars

\* The feature functions, or main, run twice.
TwiceInputs ==
    {Input(s, 2, R(0), CodeOrder) : s \in ShortSeries}
    \cup {Input(LongOne(MaxBars, p, "spike"), d, DefaultGapThreshold, CodeOrder) :
              p \in 1..MaxBars, d \in {3, DefaultLookback}}

InitTwice == InitFrom(TwiceInputs)

NextTwice == MainStep \/ Reapply \/ RunAgain

SpecTwice == InitTwice /\ [][NextTwice]_vars

(***************************************************************************)
(* fetch_candles: the SDK loop, the HTTP fallback, process_candles.        *)
(* Times are offsets from start_time; a batch is the sequence of the close *)
(* times 'T' of its candles, whatever the API chose to send.               *)
(***************************************************************************)
MaxTime == 3
MaxBatch == 2
MaxCandles == 4

Batches == UNION {[1..n -> 0..MaxTime] : n \in 1..MaxBatch}

\* all_candles.extend(batch); current_start = batch[-1]['T'] + 1
ExtendAndAdvance(batch) ==
    /\ all_candles' = all_candles \o batch
    /\ current_start' = batch[Len(batch)] + 1

SdkBatch ==
    /\ fpc = "sdk" /\ current_start < end_time
    /\ \E batch \in Batches :
          /\ Len(all_candles) + Len(batch) <= MaxCandles
          /\ ExtendAndAdvance(batch)
    /\ UNCHANGED <<pipeVars, fpc, end_time, candles>>

\* "if not batch: break", then "return all_candles"
SdkEmptyBatch ==
    /\ fpc = "sdk" /\ current_start < end_time
    /\ candles' = Some(all_candles)
    /\ fpc' = "process"
    /\ UNCHANGED <<pipeVars, current_start, end_time, all_candles>>

\* The while condition fails: "return all_candles"
SdkLoopEnd ==
    /\ fpc = "sdk" /\ current_start >= end_time
    /\ candles' = Some(all_candles)
    /\ fpc' = "process"
    /\ UNCHANGED <<pipeVars, current_start, end_time, all_candles>>

\* AttributeError or any other exception: "return None"; fetch_candles
\* falls back to fetch_candles_http, which starts over.
SdkFails ==
    /\ fpc = "sdk" /\ current_start < end_time
    /\ fpc' = "http"
    /\ current_start' = 0
    /\ all_candles' = <<>>
    /\ UNCHANGED <<pipeVars, end_time, candles>>

HttpBatch ==
    /\ fpc = "http" /\ current_start < end_time
    /\ \E batch \in Batches :
          /\ Len(all_candles) + Len(batch) <= MaxCandles
          /\ ExtendAndAdvance(batch)
    /\ UNCHANGED <<pipeVars, fpc, end_time, candles>>

\* status_code != 200 or an empty batch: "break", then "return all_candles"
HttpBreak ==
    /\ fpc = "http" /\ current_start < end_time
    /\ candles' = Some(all_candles)
    /\ fpc' = "process"
    /\ UNCHANGED <<pipeVars, current_start, end_time, all_candles>>

HttpLoopEnd ==
    /\ fpc = "http" /\ current_start >= end_time
    /\ candles' = Some(all_candles)
    /\ fpc' = "process"
    /\ UNCHANGED <<pipeVars, current_start, end_time, all_candles>>

\* An exception: "return None"
HttpFails ==
    /\ fpc = "http" /\ current_start < end_time
    /\ candles' = None
    /\ fpc' = "process"
    /\ UNCHANGED <<pipeVars, current_start, end_time, all_candles>>

\* process_candles: nothing to process, or the CSV is written
ProcessCandles ==
    /\ fpc = "process"
    /\ fpc' = IF candles.none \/ candles.list = <<>> THEN "empty" ELSE "saved"
    /\ UNCHANGED <<pipeVars, current_start, end_time, all_candles, candles>>

PipeIdle ==
    /\ file_exists = FALSE
    /\ csv = <<>>
    /\ lookback = DefaultLookback
    /\ gap_threshold = DefaultGapThreshold
    /\ order = CodeOrder
    /\ todo = <<>>
    /\ pc = "done"
    /\ df = NoTable
    /\ result = "none"
    /\ out = NoTable
    /\ again = "no"
    /\ first = NoTable

InitFetch ==
    /\ PipeIdle
    /\ fpc = "sdk"
    /\ end_time \in 1..MaxTime
    /\ current_start = 0
    /\ all_candles = <<>>
    /\ candles = None

NextFetch ==
    \/ SdkBatch
    \/ SdkEmptyBatch
    \/ SdkLoopEnd
    \/ SdkFails
    \/ HttpBatch
    \/ HttpBreak
    \/ HttpLoopEnd
    \/ HttpFails
    \/ ProcessCandles

SpecFetch == InitFetch /\ [][NextFetch]_vars

\* C10: every iteration of the pagination loops that stays in the loop strictly
\* increases current_start (so the loop ends and no candle is appended twice).
C10_EveryIterationAdvances ==
    [][(fpc \in {"sdk", "http"} /\ fpc' = fpc) => current_start' > current_start]_vars

(***************************************************************************)
(* Column sets and views used by the properties.                           *)
(***************************************************************************)
RawCols == {"open", "high", "low", "close", "volume"}

LagCols == {CloseLag(Lags[k]) : k \in 1..Len(Lags)} \cup {VolumeLag(Lags[k]) : k \in 1..Len(Lags)}

FeatureCols == LagCols \cup {"log_return", "volatility_20"}

ColsOf(name) ==
    CASE name = "ob"  -> {"ob_high", "ob_low"}
      [] name = "fvg" -> {"fvg_bull", "fvg_bear"}
      [] name = "ls"  -> {"liq_sweep_bull", "liq_sweep_bear"}
      [] name = "bos" -> {"bos_bull", "bos_bear"}

DetectorCols == UNION {ColsOf(CodeOrder[k]) : k \in 1..Len(CodeOrder)}

AllCols == RawCols \cup FeatureCols \cup DetectorCols

\* The DataFrame still has one row per bar of the input (the drop has not run).
Undropped == file_exists /\ pc \in {"raw", "smc"}

\* add_smc_features has returned and the rows are not dropped yet.
Annotated == file_exists /\ pc = "smc" /\ todo = <<>>

Finished == file_exists /\ pc = "done"

Has(names) == names \subseteq Columns(df)

\* The whole feature table of a series, before the row drop, as main builds it.
FeatureTable(rows) ==
    add_smc_features(add_raw_features(read_csv(rows), Lags), lookback, gap_threshold)

PriorRows(i) == (i - lookback)..(i - 1)

BelowPriorLow(i) ==
    i > lookback /\ \A j \in PriorRows(i) : csv[i].low < csv[j].low

AbovePriorHigh(i) ==
    i > lookback /\ \A j \in PriorRows(i) : csv[i].high > csv[j].high

\* (close - open)/open > 0.002 and (open - close)/open > 0.002, for open > 0
ReversalUp(i) == (csv[i].close - csv[i].open) * 1000 > 2 * csv[i].open

ReversalDown(i) == (csv[i].open - csv[i].close) * 1000 > 2 * csv[i].open

(***************************************************************************)
(* C1: a series shorter than the default lookback.                         *)
(***************************************************************************)
ShortInput == Finished /\ Len(csv) < DefaultLookback

\* C1 (as claimed): for a series with fewer than 20 bars main fails with
\* InsufficientDataError and writes no output table.
C1_ShortSeriesFails ==
    ShortInput => (result = "InsufficientDataError" /\ out = NoTable)

\* C1 (amended): for a series with fewer than 20 bars main completes
\* normally and writes an output table that has every column and no row.
C1_ShortSeriesSavesEmptyTable ==
    ShortInput => (result = "saved" /\ Columns(out) = AllCols /\ NRows(out) = 0)

C1_Witness ==
    /\ ShortInput /\ Len(csv) > 10
    /\ result = "saved" /\ NRows(out) = 0 /\ Columns(out) = AllCols

(***************************************************************************)
(* C2: sweeps and breaks.                                                  *)
(***************************************************************************)
SweepAndBreak == Undropped /\ Has(ColsOf("ls") \cup ColsOf("bos"))

\* C2 (as claimed): a sweep implies the break of the same direction,
\* liq_sweep_bull[t] => bos_bull[t] and liq_sweep_bear[t] => bos_bear[t].
C2_SweepImpliesSameBreak ==
    SweepAndBreak =>
        \A i \in 1..NRows(df) :
            /\ df.cols["liq_sweep_bull"][i] => df.cols["bos_bull"][i]
            /\ df.cols["liq_sweep_bear"][i] => df.cols["bos_bear"][i]

\* C2 (amended): a sweep implies the break of the same prior extreme, which
\* carries the opposite name: liq_sweep_bull[t] => bos_bear[t] (low below the
\* prior minimum low) and liq_sweep_bear[t] => bos_bull[t] (high above the
\* prior maximum high).
C2_SweepImpliesBreakOfSameExtreme ==
    SweepAndBreak =>
        \A i \in 1..NRows(df) :
            /\ df.cols["liq_sweep_bull"][i] => df.cols["bos_bear"][i]
            /\ df.cols["liq_sweep_bear"][i] => df.cols["bos_bull"][i]

\* A bullish sweep, a bearish sweep, and breaks without a sweep.
C2_Witness ==
    /\ SweepAndBreak
    /\ \E i \in 1..NRows(df) : df.cols["liq_sweep_bull"][i] /\ df.cols["bos_bear"][i]
    /\ \E i \in 1..NRows(df) : df.cols["liq_sweep_bear"][i] /\ df.cols["bos_bull"][i]
    /\ \E i \in 1..NRows(df) : df.cols["bos_bear"][i] /\ ~df.cols["liq_sweep_bull"][i]
    /\ \E i \in 1..NRows(df) : df.cols["bos_bull"][i] /\ ~df.cols["liq_sweep_bear"][i]

(***************************************************************************)
(* C3: fair value gaps.                                                    *)
(***************************************************************************)
GapsDone == Undropped /\ Has(ColsOf("fvg")) /\ (todo = <<>> \/ Head(todo) # "fvg")

BullGap(i) == i > 1 /\ csv[i].low > csv[i - 1].high

BearGap(i) == i > 1 /\ csv[i].high < csv[i - 1].low

RawBull(i) == Frac(csv[i].low - csv[i - 1].high, csv[i - 1].high)

RawBear(i) == Frac(csv[i - 1].low - csv[i].high, csv[i - 1].low)

NonNegative(x) == ~IsNaN(x) /\ x.n >= 0

GapCell(x, isGap, raw) ==
    /\ NonNegative(x)
    /\ IF isGap /\ RGt(raw, gap_threshold) THEN REq(x, raw) ELSE REq(x, R(0))

\* C3: fvg_bull and fvg_bear are >= 0, are 0 where there is no gap or the raw
\* relative gap is <= gap_threshold, equal the raw gap where it is above the
\* threshold, and are 0 (not NaN) on the first bar.
C3_GapMagnitudes ==
    GapsDone =>
        \A i \in 1..NRows(df) :
            /\ GapCell(df.cols["fvg_bull"][i], BullGap(i), IF BullGap(i) THEN RawBull(i) ELSE NaN)
            /\ GapCell(df.cols["fvg_bear"][i], BearGap(i), IF BearGap(i) THEN RawBear(i) ELSE NaN)
            /\ i = 1 => df.cols["fvg_bull"][i] = R(0) /\ df.cols["fvg_bear"][i] = R(0)

\* high[t-1] = 110, low[t] = 111, threshold 0.001: fvg_bull[t] = 1/110.
C3_Witness ==
    /\ GapsDone /\ gap_threshold = Frac(1, 1000)
    /\ \E i \in 2..NRows(df) :
          /\ csv[i - 1].high = 110 /\ csv[i].low = 111
          /\ REq(df.cols["fvg_bull"][i], Frac(1, 110))
          /\ df.cols["fvg_bull"][1] = R(0)

(***************************************************************************)
(* C4: the 3-bar scenario.                                                 *)
(***************************************************************************)
Scenario == <<Stamp(B1, 1), Stamp(B2, 2), Stamp(B3, 3)>>

InScenario == Annotated /\ csv = Scenario /\ lookback <= 2

\* C4 (as claimed): in the scenario bar 3 is bos_bear and liq_sweep_bear; a bar
\* whose low is below the prior minimum low and whose (open-close)/open exceeds
\* the reversal threshold is flagged bos_bear and liq_sweep_bear.
C4_LowBreakIsBearSweep ==
    /\ InScenario => df.cols["bos_bear"][3] /\ df.cols["liq_sweep_bear"][3]
    /\ Annotated =>
          \A i \in 1..NRows(df) :
              (BelowPriorLow(i) /\ ReversalDown(i)) =>
                  (df.cols["bos_bear"][i] /\ df.cols["liq_sweep_bear"][i])

\* C4 (amended): in the scenario bar 3 is bos_bear and not liq_sweep_bear (its
\* high 109 is not above the prior maximum high 110); a bar whose low is below
\* the prior minimum low is flagged bos_bear, and a bar is flagged
\* liq_sweep_bear exactly when its high is above the prior maximum high and
\* its (open-close)/open exceeds the reversal threshold.
C4_LowBreakIsBosBearOnly ==
    /\ InScenario =>
          /\ df.cols["bos_bear"][3]
          /\ ~df.cols["liq_sweep_bear"][3]
          /\ ~df.cols["liq_sweep_bull"][3]
    /\ Annotated =>
          \A i \in 1..NRows(df) :
              /\ BelowPriorLow(i) => df.cols["bos_bear"][i]
              /\ df.cols["liq_sweep_bear"][i] <=> (AbovePriorHigh(i) /\ ReversalDown(i))

C4_Witness ==
    /\ InScenario /\ lookback = 2
    /\ BelowPriorLow(3) /\ ReversalDown(3)
    /\ df.cols["bos_bear"][3] /\ ~df.cols["liq_sweep_bear"][3]

(***************************************************************************)
(* C5: the rows the final drop keeps.                                      *)
(***************************************************************************)
\* Row i of the input has full history for every feature computed on it.
FullHistory(i) ==
    /\ i > lookback
    /\ \A j \in WindowRows(i, lookback, TRUE) : j >= 1 /\ j <= Len(csv)
    /\ i >= lookback
    /\ i > VolWindow
    /\ \A k \in 1..Len(Lags) : i > Lags[k]

\* C5: every row of the output table has full history for every feature (rows
\* are told apart by their timestamps, which a valid series does not repeat).
C5_SurvivorsHaveFullHistory ==
    (Finished /\ ValidSeries(csv)) =>
        \A r \in 1..NRows(out) : \A i \in 1..Len(csv) :
            csv[i].ts = out.index[r] => FullHistory(i)

(***************************************************************************)
(* C8: a series that breaks the bar invariant.                             *)
(***************************************************************************)
BadInput == file_exists /\ ~ValidSeries(csv)

\* C8 (as claimed): a series with high < low on a bar or with timestamps that
\* do not strictly increase is rejected with InvalidBarError before any
\* feature column is produced, and no table is written for it.
C8_InvalidSeriesRejected ==
    BadInput =>
        /\ Columns(df) \subseteq RawCols
        /\ out = NoTable
        /\ pc = "done" => result = "InvalidBarError"

\* C8 (amended): such a series is not rejected: main runs every step on it,
\* and writes the table with every column and with every row from the 21st
\* on, the offending bars among them.
C8_InvalidSeriesProcessed ==
    (BadInput /\ pc = "done") =>
        /\ result = "saved"
        /\ Columns(out) = AllCols
        /\ out.index = [r \in 1..(IF Len(csv) > VolWindow THEN Len(csv) - VolWindow ELSE 0) |->
                            csv[r + VolWindow].ts]
        /\ \A r \in 1..NRows(out) :
              /\ out.cols["high"][r] = R(csv[r + VolWindow].high)
              /\ out.cols["low"][r] = R(csv[r + VolWindow].low)

C8_Witness ==
    /\ BadInput /\ pc = "done" /\ result = "saved"
    /\ \E r \in 1..NRows(out) : RLt(out.cols["high"][r], out.cols["low"][r])

(***************************************************************************)
(* C9: causality.                                                          *)
(***************************************************************************)
CausalCols == AllCols \ ColsOf("ob")

Prefix(t) == SubSeq(csv, 1, t)

\* C9: in the annotated table, before the drop, the value at bar t of every column but ob_high and
\* ob_low is the value the pipeline computes from bars 1..t alone, and the
\* prior extreme of bos_* and liq_sweep_* at t ranges over the lookback bars
\* before t, bar t excluded.
C9_Causal ==
    Annotated =>
        \A t \in 1..NRows(df) :
            /\ LET alone == FeatureTable(Prefix(t))
               IN  \A c \in Columns(df) \cap CausalCols :
                      df.cols[c][t] = alone.cols[c][t]
            /\ Has(ColsOf("bos")) =>
                  /\ df.cols["bos_bull"][t] <=> AbovePriorHigh(t)
                  /\ df.cols["bos_bear"][t] <=> BelowPriorLow(t)
            /\ Has(ColsOf("ls")) =>
                  /\ df.cols["liq_sweep_bull"][t] <=> (BelowPriorLow(t) /\ ReversalUp(t))
                  /\ df.cols["liq_sweep_bear"][t] <=> (AbovePriorHigh(t) /\ ReversalDown(t))

\* An order-block flag that a later bar decides, next to causal columns that
\* are set: a break, a gap, a defined volatility and a defined 10-bar lag.
C9_Witness ==
    /\ Annotated
    /\ \E t \in 1..NRows(df) :
          df.cols["ob_high"][t] /\ ~FeatureTable(Prefix(t)).cols["ob_high"][t]
    /\ \E t \in 1..NRows(df) : df.cols["bos_bull"][t]
    /\ \E t \in 1..NRows(df) : RGt(df.cols["fvg_bull"][t], R(0))
    /\ \E t \in 1..NRows(df) :
          /\ ~CellIsNaN("volatility_20", df.cols["volatility_20"][t])
          /\ ~CellIsNaN("close_lag_10", df.cols["close_lag_10"][t])

(***************************************************************************)
(* C6: the detectors in any order, one of them possibly left out.          *)
(***************************************************************************)
CalledCols == UNION {ColsOf(order[k]) : k \in 1..Len(order)}

\* C6: whatever the order of the detectors and whichever one is left out, the
\* annotated table holds exactly the columns of the detectors called, each
\* equal to the column the code-order pipeline gives, and the final drop keeps
\* the same rows.
C6_OrderInsensitive ==
    /\ Annotated =>
          /\ Columns(df) = RawCols \cup FeatureCols \cup CalledCols
          /\ \A c \in Columns(df) : df.cols[c] = FeatureTable(csv).cols[c]
    /\ Finished =>
          LET ref == dropna(FeatureTable(csv))
          IN  /\ out.index = ref.index
              /\ \A c \in Columns(out) : out.cols[c] = ref.cols[c]

\* A table written with rows in it, by three detectors called in another
\* order than the code's, with a break flagged on a surviving row.
C6_Witness ==
    /\ Finished /\ Len(order) = 3 /\ order[1] = "bos" /\ order[3] = "fvg"
    /\ NRows(out) > 0
    /\ \E r \in 1..NRows(out) : out.cols["bos_bull"][r]

(***************************************************************************)
(* C7: applying the feature functions, or main, twice.                     *)
(***************************************************************************)
\* C7: add_raw_features and add_smc_features applied again to the table they
\* annotated leave its columns and values as they were, and main run again on
\* the same file writes the same table.
C7_Idempotent ==
    /\ (Annotated /\ again = "reapply") => df = first
    /\ (Finished /\ again = "rerun") => out = first

C7_Witness ==
    /\ Annotated /\ again = "reapply" /\ df = first
    /\ \E i \in 1..NRows(df) : df.cols["bos_bull"][i]
    /\ \E i \in 1..NRows(df) : df.cols["ob_high"][i]
    /\ \E i \in 1..NRows(df) : RGt(df.cols["fvg_bull"][i], R(0))
    /\ \E i \in 1..NRows(df) : ~CellIsNaN("volatility_20", df.cols["volatility_20"][i])

====
